---- MODULE Spec2Model ----
(***************************************************************************)
(* Job persistence and lifecycle of briefly: the JobService facade, its    *)
(* SQLite and PostgreSQL backends (services/jobs.py) and the handlers of   *)
(* the API layer that drive job records (api/routes/jobs.py,               *)
(* api/routes/briefings.py).                                               *)
(*                                                                         *)
(* Encodings.                                                              *)
(*   Optional values: None is <<>>, Some(v) is <<v>>.                      *)
(*   A dict is a set of <<key, value>> pairs; {} is the empty dict.        *)
(*   A job id is an integer: an id > 0 is a UUID-shaped string, an id <= 0 *)
(*   is a string that is no UUID (0 is "", -1 is "not-a-uuid", -2 is       *)
(*   "'; DROP TABLE jobs; --", -3 is "../etc/passwd").                     *)
(*   A point in time is a number of clock ticks; the clock never runs      *)
(*   backwards.  A second has UsPerSec ticks.                              *)
(***************************************************************************)
EXTENDS Integers, Sequences, FiniteSets, TLC

VARIABLES
    backend,    \* JobService._db_type: "sqlite" or "postgresql"
    rows,       \* the jobs table: stored id -> row
    now,        \* the wall clock
    tasks,      \* the background task of each job the API layer launched
    ret,        \* the response of the most recent call
    nops,       \* number of calls made so far
    pipe        \* the run of CurationService.create_briefing

vars == <<backend, rows, now, tasks, ret, nops, pipe>>

---------------------------------------------------------------------------
(* Bounds of the model *)

MaxJobs == 2
MaxRows == 3
MaxTime == 1
MaxCreated == 2
MaxOps == 5
MaxRequests == 3
MaxCalls == 3
MaxItems == 2
MaxSources == 1
MaxListed == 2
MaxCallbacks == 1
UsPerSec == 2

---------------------------------------------------------------------------
(* Values *)

None == <<>>
Some(v) == <<v>>

PENDING == "pending"
RUNNING == "running"
COMPLETED == "completed"
FAILED == "failed"
CANCELLED == "cancelled"
JobStatus == {PENDING, RUNNING, COMPLETED, FAILED, CANCELLED}

BRIEFING == "briefing"
TRANSCRIPTION == "transcription"
EXTRACTION == "extraction"
JobType == {BRIEFING, TRANSCRIPTION, EXTRACTION}

Backends == {"sqlite", "postgresql"}

\* Ids a caller may pass: the ids create can hand out, one more UUID-shaped
\* id that is never stored, and strings that are no UUID.
JobIds == 1..MaxJobs
UuidIds == 1..(MaxRows + 1)
BadIds == {0, -1}
AnyIds == UuidIds \cup BadIds
IsUuid(id) == id > 0

Times == 0..MaxTime

ProgressPayloads == { {<<"step", 1>>, <<"current", 1>>}, {<<"step", 2>>} }
OutputPayloads == { {}, {<<"items", 42>>} }
InputParams == { {}, {<<"hours_back", 24>>} }
ErrorTexts == {"Network timeout"}
Limits == 0..(MaxRows + 1)

---------------------------------------------------------------------------
(* Conversions *)

\* json.dumps: a dict becomes a (never empty) text.
JsonDumps(d) == [json |-> d]
\* json.loads
JsonLoads(text) == text.json

\* Python truth value of a dict / of a str
DictTruthy(d) == d # {}
StrTruthy(s) == s # ""

\* datetime.isoformat() of a UTC datetime, as character codes: the seconds
\* digit, then "." and the microsecond digit unless the microsecond is 0,
\* then "+" (the start of "+00:00").
IsoFormat(t) ==
    LET s == t \div UsPerSec
        u == t % UsPerSec
    IN  IF u = 0 THEN <<48 + s, 43>> ELSE <<48 + s, 46, 48 + u, 43>>

\* datetime.fromisoformat
FromIsoFormat(text) ==
    IF Len(text) = 2 THEN (text[1] - 48) * UsPerSec
    ELSE (text[1] - 48) * UsPerSec + (text[3] - 48)

\* a collation that sorts shorter texts first
TextLeq_ShortFirst(a, b) ==
    \/ Len(a) < Len(b)
    \/ /\ Len(a) = Len(b)
       /\ \E k \in 0..Len(a) :
              /\ \A i \in 1..k : a[i] = b[i]
              /\ k = Len(a) \/ a[k + 1] < b[k + 1]

\* SQLite's BINARY collation on TEXT: bytewise, a proper prefix sorts first.
TextLeq(a, b) ==
    \E k \in 0..Len(a) :
        /\ k <= Len(b)
        /\ \A i \in 1..k : a[i] = b[i]
        /\ \/ k = Len(a)
           \/ k < Len(b) /\ a[k + 1] < b[k + 1]

\* How a backend stores a timestamp: SQLite as ISO text, PostgreSQL natively.
StoreTs(b, t) == IF b = "sqlite" THEN IsoFormat(t) ELSE t
\* ORDER BY created_at: a <= b on stored values.
StoredTsLeq(b, x, y) == IF b = "sqlite" THEN TextLeq(x, y) ELSE x <= y

---------------------------------------------------------------------------
(* The Job dataclass and the rows of the jobs table *)

Job(id, type, status, created_at, input, source) ==
    [id |-> id, type |-> type, status |-> status, created_at |-> created_at,
     started_at |-> None, completed_at |-> None, progress |-> None,
     input |-> input, output |-> None, error |-> None, source |-> source]

\* INSERT INTO jobs (id, type, status, created_at, input, source): the other
\* columns are NULL.
InsertRow(b, job) ==
    [type |-> job.type, status |-> job.status,
     created_at |-> StoreTs(b, job.created_at),
     started_at |-> None, completed_at |-> None, progress |-> None,
     input |-> IF job.input # None /\ DictTruthy(job.input[1])
               THEN Some(JsonDumps(job.input[1])) ELSE None,
     output |-> None, error |-> None, source |-> job.source]

StoredIds == DOMAIN rows

\* The id parameter of a statement: PostgreSQL casts it with $n::uuid, which
\* fails for a string that is no UUID; SQLite compares it as text.
CastFails(b, id) == b = "postgresql" /\ ~IsUuid(id)

\* SQLiteBackend._row_to_job / PostgreSQLBackend._row_to_job
ParseDt(b, s) ==
    IF s = None THEN None
    ELSE IF b = "sqlite" THEN Some(FromIsoFormat(s[1])) ELSE s
\* asyncpg hands a JSONB column back as its text, and the PostgreSQL
\* _row_to_job passes it on; the SQLite _row_to_job calls json.loads.
JsonAsText(b) == b = "postgresql"
LoadJson(b, c) ==
    IF c = None THEN None
    ELSE IF JsonAsText(b) THEN c ELSE Some(JsonLoads(c[1]))
RowToJob(b, id, row) ==
    [id |-> id, type |-> row.type, status |-> row.status,
     created_at |-> ParseDt(b, Some(row.created_at))[1],
     started_at |-> ParseDt(b, row.started_at),
     completed_at |-> ParseDt(b, row.completed_at),
     progress |-> LoadJson(b, row.progress),
     input |-> LoadJson(b, row.input),
     output |-> LoadJson(b, row.output),
     error |-> row.error,
     source |-> row.source]

JobOf(id) == RowToJob(backend, id, rows[id])

---------------------------------------------------------------------------
(* SQL statements, as functions of the table *)

\* INSERT INTO jobs ... VALUES (...)
InsertStmt(rws, id, row) ==
    [j \in DOMAIN rws \cup {id} |-> IF j = id THEN row ELSE rws[j]]

\* update_progress without the COALESCE: every call sets started_at
UpdateProgressRow_NoCoalesce(row, progress, ts) ==
    [row EXCEPT !.progress = Some(JsonDumps(progress)),
                !.status = RUNNING,
                !.started_at = Some(ts)]

\* update_progress that merges the payload into the stored one
UpdateProgressRow_Merge(row, progress, ts) ==
    [row EXCEPT !.progress =
                    IF row.progress = None THEN Some(JsonDumps(progress))
                    ELSE Some(JsonDumps(progress \cup
                             {kv \in JsonLoads(row.progress[1]) :
                                 \A new \in progress : new[1] # kv[1]})),
                !.status = RUNNING,
                !.started_at = IF row.started_at = None THEN Some(ts)
                               ELSE row.started_at]

\* UPDATE jobs SET progress = ?, status = 'running',
\*   started_at = COALESCE(started_at, ?) WHERE id = ?
UpdateProgressRow(row, progress, ts) ==
    [row EXCEPT !.progress = Some(JsonDumps(progress)),
                !.status = RUNNING,
                !.started_at = IF row.started_at = None THEN Some(ts)
                               ELSE row.started_at]

UpdateProgressStmt(rws, id, progress, ts) ==
    [j \in DOMAIN rws |->
        IF j = id THEN UpdateProgressRow(rws[j], progress, ts) ELSE rws[j]]

\* an update_status that also wipes the progress
UpdateStatusRow_ClearsProgress(row, status) ==
    [row EXCEPT !.status = status, !.progress = None]

\* UPDATE jobs SET status = ? WHERE id = ?
UpdateStatusRow(row, status) == [row EXCEPT !.status = status]

UpdateStatusStmt(rws, id, status) ==
    [j \in DOMAIN rws |->
        IF j = id THEN UpdateStatusRow(rws[j], status) ELSE rws[j]]

\* a complete_job that also clears the error
CompleteRow_ClearsError(row, output, ts) ==
    [row EXCEPT !.status = COMPLETED,
                !.completed_at = Some(ts),
                !.output = Some(JsonDumps(output)),
                !.error = None]

\* UPDATE jobs SET status = 'completed', completed_at = ?, output = ? WHERE id = ?
CompleteRow(row, output, ts) ==
    [row EXCEPT !.status = COMPLETED,
                !.completed_at = Some(ts),
                !.output = Some(JsonDumps(output))]

CompleteStmt(rws, id, output, ts) ==
    [j \in DOMAIN rws |->
        IF j = id THEN CompleteRow(rws[j], output, ts) ELSE rws[j]]

\* a fail_job that also drops the input
FailRow_ClearsInput(row, error, ts) ==
    [row EXCEPT !.status = FAILED,
                !.completed_at = Some(ts),
                !.error = Some(error),
                !.input = None]

\* a fail_job that stamps started_at as well
FailRow_SetsStarted(row, error, ts) ==
    [row EXCEPT !.status = FAILED,
                !.started_at = Some(ts),
                !.completed_at = Some(ts),
                !.error = Some(error)]

\* UPDATE jobs SET status = 'failed', completed_at = ?, error = ? WHERE id = ?
FailRow(row, error, ts) ==
    [row EXCEPT !.status = FAILED,
                !.completed_at = Some(ts),
                !.error = Some(error)]

FailStmt(rws, id, error, ts) ==
    [j \in DOMAIN rws |->
        IF j = id THEN FailRow(rws[j], error, ts) ELSE rws[j]]

\* a WHERE clause that forgets 'pending' and takes 'cancelled' for active
IsActiveRow_Wrong(row) == row.status \in {RUNNING, CANCELLED}

\* WHERE status IN ('pending', 'running')
IsActiveRow(row) == row.status \in {PENDING, RUNNING}
ActiveIds == {j \in StoredIds : IsActiveRow(rows[j])}

\* ORDER BY created_at ASC LIMIT 1
FirstByCreatedDesc_Asc(ids) ==
    {j \in ids : \A k \in ids :
        StoredTsLeq(backend, rows[j].created_at, rows[k].created_at)}

\* ORDER BY created_at DESC LIMIT 1 over the rows of ids: the rows one of
\* which the statement returns (which one of several rows with the same
\* created_at is not determined).
FirstByCreatedDesc(ids) ==
    {j \in ids : \A k \in ids :
        StoredTsLeq(backend, rows[k].created_at, rows[j].created_at)}

\* the sequences of n ids without repetition (of all of ids, when it has
\* fewer than n)
RECURSIVE Orderings(_, _)
Orderings(ids, n) ==
    IF n = 0 \/ ids = {} THEN {<<>>}
    ELSE UNION { {<<j>> \o rest : rest \in Orderings(ids \ {j}, n - 1)} : j \in ids }

\* ORDER BY created_at DESC without the LIMIT
RecentOrderings_NoLimit(limit) ==
    {s \in Orderings(StoredIds, Cardinality(StoredIds)) :
        \A i \in 1..(Len(s) - 1) :
            StoredTsLeq(backend, rows[s[i + 1]].created_at, rows[s[i]].created_at)}

\* ORDER BY created_at DESC LIMIT limit: the id sequences the statement may
\* return.
RecentOrderings(limit) ==
    {s \in Orderings(StoredIds, limit) :
        /\ \A i \in 1..(Len(s) - 1) :
               StoredTsLeq(backend, rows[s[i + 1]].created_at, rows[s[i]].created_at)
        /\ \A k \in StoredIds \ {s[i] : i \in 1..Len(s)} : \A i \in 1..Len(s) :
               StoredTsLeq(backend, rows[k].created_at, rows[s[i]].created_at)}

---------------------------------------------------------------------------
(* Responses *)

NoRet ==
    [op |-> "none", id |-> 0, arg |-> None, ts |-> -1, val |-> None, raised |-> FALSE]
Ret(op, id, arg, val) ==
    [op |-> op, id |-> id, arg |-> arg, ts |-> -1, val |-> val, raised |-> FALSE]
RetAt(op, id, arg, ts) ==
    [op |-> op, id |-> id, arg |-> arg, ts |-> ts, val |-> None, raised |-> FALSE]
Raised(op, id, arg) ==
    [op |-> op, id |-> id, arg |-> arg, ts |-> -1, val |-> None, raised |-> TRUE]

---------------------------------------------------------------------------
(* JobService operations *)

\* uuid4(): an id no stored job has
FreshId ==
    CHOOSE id \in UuidIds : id \notin StoredIds /\ \A k \in 1..(id - 1) : k \in StoredIds

\* A call on a job is entered after create has returned the job's id.
\* SQLite reads the clock for the statement's parameter before it executes
\* the statement, so a call that overlaps other calls executes with the
\* clock value ts it read when it was entered; PostgreSQL evaluates NOW() in
\* the statement.
ClockRead(id, ts) ==
    /\ ts \in Times
    /\ ts <= now
    /\ backend = "postgresql" => ts = now
    /\ id \in StoredIds => JobOf(id).created_at <= ts

\* JobService.create -> insert_job
Create(type, params, source) ==
    /\ nops < MaxOps
    /\ Cardinality(StoredIds) < MaxJobs
    /\ LET id == FreshId
           job == Job(id, type, PENDING, now, Some(params), source)
       IN  /\ rows' = InsertStmt(rows, id, InsertRow(backend, job))
           /\ ret' = Ret("create", id, Some(params), Some(job))
    /\ nops' = nops + 1
    /\ UNCHANGED <<pipe, backend, now, tasks>>

\* JobService.update_progress -> update_progress
UpdateProgress(id, progress, ts) ==
    /\ nops < MaxOps
    /\ ClockRead(id, ts)
    /\ IF CastFails(backend, id)
       THEN /\ ret' = Raised("update_progress", id, Some(progress))
            /\ UNCHANGED rows
       ELSE /\ rows' = UpdateProgressStmt(rows, id, progress, StoreTs(backend, ts))
            /\ ret' = RetAt("update_progress", id, Some(progress), ts)
    /\ nops' = nops + 1
    /\ UNCHANGED <<pipe, backend, now, tasks>>

\* JobService.update_status -> update_status
UpdateStatus(id, status) ==
    /\ nops < MaxOps
    /\ IF CastFails(backend, id)
       THEN /\ ret' = Raised("update_status", id, Some(status))
            /\ UNCHANGED rows
       ELSE /\ rows' = UpdateStatusStmt(rows, id, status)
            /\ ret' = Ret("update_status", id, Some(status), None)
    /\ nops' = nops + 1
    /\ UNCHANGED <<pipe, backend, now, tasks>>

\* JobService.complete -> complete_job
Complete(id, output, ts) ==
    /\ nops < MaxOps
    /\ ClockRead(id, ts)
    /\ IF CastFails(backend, id)
       THEN /\ ret' = Raised("complete", id, Some(output))
            /\ UNCHANGED rows
       ELSE /\ rows' = CompleteStmt(rows, id, output, StoreTs(backend, ts))
            /\ ret' = RetAt("complete", id, Some(output), ts)
    /\ nops' = nops + 1
    /\ UNCHANGED <<pipe, backend, now, tasks>>

\* JobService.fail -> fail_job
Fail(id, error, ts) ==
    /\ nops < MaxOps
    /\ ClockRead(id, ts)
    /\ IF CastFails(backend, id)
       THEN /\ ret' = Raised("fail", id, Some(error))
            /\ UNCHANGED rows
       ELSE /\ rows' = FailStmt(rows, id, error, StoreTs(backend, ts))
            /\ ret' = RetAt("fail", id, Some(error), ts)
    /\ nops' = nops + 1
    /\ UNCHANGED <<pipe, backend, now, tasks>>

\* JobService.get -> get_job: SELECT * FROM jobs WHERE id = ?
GetJobResult(id) ==
    IF CastFails(backend, id) THEN Raised("get", id, None)
    ELSE IF id \in StoredIds THEN Ret("get", id, None, Some(JobOf(id)))
    ELSE Ret("get", id, None, None)

GetJob(id) ==
    /\ nops = 0
    /\ ret' = GetJobResult(id)
    /\ nops' = nops + 1
    /\ UNCHANGED <<pipe, backend, rows, now, tasks>>

\* JobService.get_active -> get_active_job:
\* SELECT * FROM jobs WHERE status IN ('pending', 'running')
\*   ORDER BY created_at DESC LIMIT 1
GetActiveJob ==
    /\ nops = 0
    /\ IF ActiveIds = {}
       THEN ret' = Ret("get_active", 0, None, None)
       ELSE \E j \in FirstByCreatedDesc(ActiveIds) :
                ret' = Ret("get_active", 0, None, Some(JobOf(j)))
    /\ nops' = nops + 1
    /\ UNCHANGED <<pipe, backend, rows, now, tasks>>

\* JobService.list_recent -> list_recent:
\* SELECT * FROM jobs ORDER BY created_at DESC LIMIT ?
ListRecent(limit) ==
    /\ nops = 0
    /\ \E s \in RecentOrderings(limit) :
           ret' = Ret("list_recent", 0, Some(limit), [i \in 1..Len(s) |-> JobOf(s[i])])
    /\ nops' = nops + 1
    /\ UNCHANGED <<pipe, backend, rows, now, tasks>>

\* the clock advances
Tick ==
    /\ now < MaxTime
    /\ now' = now + 1
    /\ UNCHANGED <<pipe, backend, rows, tasks, ret, nops>>

---------------------------------------------------------------------------
(* The service driven call by call, as the tests drive it *)

NoTasks == [j \in JobIds |-> "none"]

\* no create_briefing call has been made
NoPipe == [stage |-> "idle"]

\* JobService.__init__ picks the backend; init_schema creates an empty table.
Init ==
    /\ backend \in Backends
    /\ rows = <<>>
    /\ now = 0
    /\ tasks = NoTasks
    /\ ret = NoRet
    /\ nops = 0
    /\ pipe = NoPipe

Next ==
    \/ \E p \in InputParams : Create(BRIEFING, p, "local")
    \/ \E id \in StoredIds, p \in ProgressPayloads, ts \in Times : UpdateProgress(id, p, ts)
    \/ \E id \in StoredIds, s \in JobStatus : UpdateStatus(id, s)
    \/ \E id \in StoredIds, o \in OutputPayloads, ts \in Times : Complete(id, o, ts)
    \/ \E id \in StoredIds, e \in ErrorTexts, ts \in Times : Fail(id, e, ts)
    \/ Tick

Spec == Init /\ [][Next]_vars

---------------------------------------------------------------------------
(* The API layer: the handlers that create jobs and the n8n webhooks *)

\* payloads the handlers write
StartingProgress == {<<"step", 0>>, <<"current", 0>>, <<"total", 0>>}
N8nTriggeredProgress == {<<"n8n_triggered", 1>>, <<"execution_id", 7>>}
ResultOutput == {<<"result", 1>>}
BriefingParams == {<<"hours_back", 24>>}
TracebackText == "Traceback (most recent call last)"
N8nTriggerFailedText == "Failed to trigger n8n"

\* what a webhook caller may send
WebhookIds == JobIds \cup {-1}
WebhookOutputs == {None, Some({<<"items", 42>>})}
WebhookErrors == {None, Some(""), Some("n8n execution failed")}

\* service.create in a handler, which then schedules or continues with pc
HandlerCreate(op, type, params, source, pc) ==
    /\ nops < MaxRequests
    /\ Cardinality(StoredIds) < MaxJobs
    /\ LET id == FreshId
           job == Job(id, type, PENDING, now, Some(params), source)
       IN  /\ rows' = InsertStmt(rows, id, InsertRow(backend, job))
           /\ tasks' = [tasks EXCEPT ![id] = pc]
           /\ ret' = Ret(op, id, Some(params), Some(job))
    /\ nops' = nops + 1
    /\ UNCHANGED <<pipe, backend, now>>

\* POST /briefings/generate, up to job_service.create: 400 without sources
GenerateBriefing(has_sources) ==
    IF has_sources
    THEN HandlerCreate("generate_briefing", BRIEFING, BriefingParams, "api", "created")
    ELSE /\ nops < MaxRequests
         /\ ret' = Raised("generate_briefing", 0, None)
         /\ nops' = nops + 1
         /\ UNCHANGED <<pipe, backend, rows, now, tasks>>

\* POST /briefings/transcripts/process, up to job_service.create
ProcessTranscripts ==
    HandlerCreate("process_transcripts", TRANSCRIPTION, BriefingParams, "api", "created")

\* generate_briefing / process_transcripts: update_progress with the initial
\* progress, then the background task is scheduled
InitialProgress(id) ==
    /\ tasks[id] = "created"
    /\ rows' = UpdateProgressStmt(rows, id, StartingProgress, StoreTs(backend, now))
    /\ tasks' = [tasks EXCEPT ![id] = "task"]
    /\ UNCHANGED <<pipe, backend, now, ret, nops>>

\* run_briefing / run_processing: the work returns and the job is completed
RunTaskComplete(id) ==
    /\ tasks[id] = "task"
    /\ rows' = CompleteStmt(rows, id, ResultOutput, StoreTs(backend, now))
    /\ tasks' = [tasks EXCEPT ![id] = "done"]
    /\ UNCHANGED <<pipe, backend, now, ret, nops>>

\* a task whose exception gets out of it
RunTaskFail_Escapes(id) ==
    /\ tasks[id] = "task"
    /\ tasks' = [tasks EXCEPT ![id] = "done"]
    /\ UNCHANGED <<pipe, backend, rows, now, ret, nops>>

\* run_briefing / run_processing: the work raises and the job is failed
RunTaskFail(id) ==
    /\ tasks[id] = "task"
    /\ rows' = FailStmt(rows, id, TracebackText, StoreTs(backend, now))
    /\ tasks' = [tasks EXCEPT ![id] = "done"]
    /\ UNCHANGED <<pipe, backend, now, ret, nops>>

\* POST /api/jobs
CreateJob(type, params, delegate_to_n8n) ==
    HandlerCreate("create_job", type, params,
                  IF delegate_to_n8n THEN "n8n" ELSE "local",
                  IF delegate_to_n8n THEN "trigger_n8n" ELSE "run_local_job")

\* create_job.run_local_job: service.start is no method of JobService, the
\* AttributeError is caught by except Exception and the job is failed
RunLocalJob(id) ==
    /\ tasks[id] = "run_local_job"
    /\ rows' = FailStmt(rows, id, TracebackText, StoreTs(backend, now))
    /\ tasks' = [tasks EXCEPT ![id] = "done"]
    /\ UNCHANGED <<pipe, backend, now, ret, nops>>

\* create_job.trigger_n8n: the POST to n8n answers with or without an
\* executionId, or fails with an httpx.HTTPError, or something else raises
N8nOutcomes == {"execution_id", "no_execution_id", "http_error", "other_error"}

TriggerN8n(id, outcome) ==
    /\ tasks[id] = "trigger_n8n"
    /\ tasks' = [tasks EXCEPT ![id] = "done"]
    /\ rows' = CASE outcome = "execution_id" ->
                     UpdateProgressStmt(rows, id, N8nTriggeredProgress,
                                        StoreTs(backend, now))
                  [] outcome = "http_error" ->
                     FailStmt(rows, id, N8nTriggerFailedText, StoreTs(backend, now))
                  [] OTHER -> rows
    /\ UNCHANGED <<pipe, backend, now, ret, nops>>

\* uuid4 ids cannot be guessed: a caller names a stored job only after the
\* handler that created it has answered with the id.
Known(id) == id \in StoredIds => tasks[id] # "created"

\* POST /api/n8n/progress.  No record is ever deleted, so the job found by
\* service.get is still stored when update_progress runs.
N8nProgressWebhook(id, progress) ==
    /\ nops < MaxRequests
    /\ Known(id)
    /\ LET found == GetJobResult(id)
       IN  IF found.raised
           THEN /\ ret' = Raised("n8n_progress", id, None)
                /\ UNCHANGED rows
           ELSE IF found.val = None
           THEN /\ ret' = Ret("n8n_progress", id, None, Some(404))
                /\ UNCHANGED rows
           ELSE /\ rows' = UpdateProgressStmt(rows, id, progress, StoreTs(backend, now))
                /\ ret' = Ret("n8n_progress", id, None, Some(200))
    /\ nops' = nops + 1
    /\ UNCHANGED <<pipe, backend, now, tasks>>

\* POST /api/n8n/complete
N8nCompleteWebhook(id, output, error) ==
    /\ nops < MaxRequests
    /\ Known(id)
    /\ LET found == GetJobResult(id)
       IN  IF found.raised
           THEN /\ ret' = Raised("n8n_complete", id, None)
                /\ UNCHANGED rows
           ELSE IF found.val = None
           THEN /\ ret' = Ret("n8n_complete", id, None, Some(404))
                /\ UNCHANGED rows
           ELSE IF error # None /\ StrTruthy(error[1])
           THEN /\ rows' = FailStmt(rows, id, error[1], StoreTs(backend, now))
                /\ ret' = Ret("n8n_complete", id, None, Some(200))
           ELSE /\ rows' = CompleteStmt(rows, id,
                               IF output # None /\ DictTruthy(output[1])
                               THEN output[1] ELSE {},
                               StoreTs(backend, now))
                /\ ret' = Ret("n8n_complete", id, None, Some(200))
    /\ nops' = nops + 1
    /\ UNCHANGED <<pipe, backend, now, tasks>>

NextApp ==
    \/ \E has_sources \in BOOLEAN : GenerateBriefing(has_sources)
    \/ ProcessTranscripts
    \/ \E id \in StoredIds : InitialProgress(id)
    \/ \E id \in StoredIds : RunTaskComplete(id)
    \/ \E id \in StoredIds : RunTaskFail(id)
    \/ \E d \in BOOLEAN : CreateJob(BRIEFING, BriefingParams, d)
    \/ \E id \in StoredIds : RunLocalJob(id)
    \/ \E id \in StoredIds, o \in N8nOutcomes : TriggerN8n(id, o)
    \/ \E id \in WebhookIds, p \in ProgressPayloads : N8nProgressWebhook(id, p)
    \/ \E id \in WebhookIds, o \in WebhookOutputs, e \in WebhookErrors :
           N8nCompleteWebhook(id, o, e)
    \/ Tick

SpecApp == Init /\ [][NextApp]_vars

\* The event loop runs a background task to its end when the work it
\* awaits ends: the task ends by completing or by failing the job.
FairSpecApp ==
    /\ SpecApp
    /\ WF_vars(\E id \in StoredIds : RunTaskComplete(id) \/ RunTaskFail(id))

---------------------------------------------------------------------------
(* One query on any table *)

\* The tables of n jobs created one after the other, each then given any
\* status by update_status.
TablesOf(b, n) ==
    {t \in [1..n -> [status : JobStatus, created_at : 0..MaxCreated]] :
        \A i \in 1..(n - 1) : t[i].created_at <= t[i + 1].created_at}

TableRows(b, t) ==
    [j \in DOMAIN t |->
        UpdateStatusRow(
            InsertRow(b, Job(j, BRIEFING, PENDING, t[j].created_at, Some({}), "local")),
            t[j].status)]

InitLookup ==
    /\ backend \in Backends
    /\ \E n \in 0..MaxRows : \E t \in TablesOf(backend, n) : rows = TableRows(backend, t)
    /\ now = MaxCreated
    /\ tasks = NoTasks
    /\ ret = NoRet
    /\ nops = 0
    /\ pipe = NoPipe

NextLookup ==
    \/ \E id \in AnyIds : GetJob(id)
    \/ GetActiveJob
    \/ \E l \in Limits : ListRecent(l)

SpecLookup == InitLookup /\ [][NextLookup]_vars

---------------------------------------------------------------------------
(* The backend called directly, with any id *)

\* a table without the PRIMARY KEY constraint on id
PrimaryKeyViolated_Never(rws, id) == FALSE

\* id TEXT PRIMARY KEY / id UUID PRIMARY KEY: a row with this id is stored
PrimaryKeyViolated(rws, id) == id \in DOMAIN rws

\* the ids a caller passes to the backend: ids of jobs and "not-a-uuid"
BackendIds == JobIds \cup {-1}

\* insert_job(job): the INSERT fails when the id cannot be cast (PostgreSQL)
\* or is stored already; the error propagates and nothing is written
InsertJob(job) ==
    /\ nops < MaxOps
    /\ IF CastFails(backend, job.id) \/ PrimaryKeyViolated(rows, job.id)
       THEN /\ ret' = Raised("insert_job", job.id, Some(job))
            /\ UNCHANGED rows
       ELSE /\ rows' = InsertStmt(rows, job.id, InsertRow(backend, job))
            /\ ret' = Ret("insert_job", job.id, Some(job), None)
    /\ nops' = nops + 1
    /\ UNCHANGED <<pipe, backend, now, tasks>>

\* get_job(job_id), after any calls
BackendGetJob(id) ==
    /\ nops < MaxOps
    /\ ret' = GetJobResult(id)
    /\ nops' = nops + 1
    /\ UNCHANGED <<pipe, backend, rows, now, tasks>>

NextBackend ==
    \/ \E id \in BackendIds, type \in {BRIEFING, TRANSCRIPTION}, p \in InputParams :
           nops < MaxCalls /\ InsertJob(Job(id, type, PENDING, now, Some(p), "local"))
    \/ \E id \in BackendIds, p \in ProgressPayloads, ts \in Times :
           nops < MaxCalls /\ UpdateProgress(id, p, ts)
    \/ \E id \in BackendIds, st \in {COMPLETED, CANCELLED} :
           nops < MaxCalls /\ UpdateStatus(id, st)
    \/ \E id \in BackendIds, o \in OutputPayloads, ts \in Times :
           nops < MaxCalls /\ Complete(id, o, ts)
    \/ \E id \in BackendIds, e \in ErrorTexts, ts \in Times :
           nops < MaxCalls /\ Fail(id, e, ts)
    \/ \E id \in BackendIds : nops < MaxCalls /\ BackendGetJob(id)
    \/ Tick

SpecBackend == Init /\ [][NextBackend]_vars

---------------------------------------------------------------------------
(* create calls that overlap *)

\* JobService.create: created_at is read from the clock when the call is
\* entered, the INSERT executes after the await, when other create calls may
\* have read the clock and inserted their rows; ts is the value read.
CreateAt(type, params, source, ts) ==
    /\ Cardinality(StoredIds) < MaxRows
    /\ ts \in 0..now
    /\ LET id == FreshId
           job == Job(id, type, PENDING, ts, Some(params), source)
       IN  /\ rows' = InsertStmt(rows, id, InsertRow(backend, job))
           /\ ret' = Ret("create", id, Some(params), Some(job))
    /\ nops' = nops + 1
    /\ UNCHANGED <<pipe, backend, now, tasks>>

\* the clock advances while the calls run
TickCreated ==
    /\ now < MaxCreated
    /\ now' = now + 1
    /\ UNCHANGED <<pipe, backend, rows, tasks, ret, nops>>

NextConcurrent ==
    \/ \E p \in InputParams, ts \in 0..MaxCreated : CreateAt(BRIEFING, p, "local", ts)
    \/ TickCreated

SpecConcurrent == Init /\ [][NextConcurrent]_vars

---------------------------------------------------------------------------
(* CurationService.create_briefing: the fan-out to the platforms, the join,
   the archive loop, the ranking, the summarizer *)

Platforms == {"x", "youtube", "podcasts"}

\* the items the adapter of a platform may return: platform, platform_id
ItemsOf(p) == {<<p, i>> : i \in 1..MaxItems}

\* the lists the adapter of a platform may return: any items in any order
RECURSIVE ListsOver(_)
ListsOver(S) ==
    {<<>>} \cup UNION {{<<x>> \o l : l \in ListsOver(S \ {x})} : x \in S}

\* the elements of a list
ItemSet(l) == {l[i] : i \in DOMAIN l}

\* ContentItem.metrics of the items: a value is an int, a bool or a str
MetricsOf(item) ==
    CASE item = <<"x", 1>> -> {<<"like_count", <<"int", 1>>>>}
      [] item = <<"x", 2>> -> {<<"retweet_count", <<"int", 1>>>>}
      [] item = <<"youtube", 1>> -> {<<"view_count", <<"int", 100>>>>,
                                     <<"has_transcript", <<"bool", 1>>>>}
      [] item = <<"youtube", 2>> -> {<<"view_count", <<"int", 100>>>>}
      [] item = <<"podcasts", 1>> -> {<<"transcript_status", <<"str", 1>>>>}
      [] item = <<"podcasts", 2>> -> {<<"comments", <<"int", 2>>>>}
      [] OTHER -> {<<"likes", <<"int", item[2]>>>>}

\* compute_score: the weight of a metric, in hundredths
Weight(key) ==
    CASE key \in {"like_count", "likes"} -> 100
      [] key \in {"retweet_count", "retweets", "shares"} -> 200
      [] key \in {"reply_count", "comments"} -> 150
      [] key \in {"view_count", "views", "impression_count"} -> 1
      [] OTHER -> 100

\* isinstance(value, (int, float)): bool is a subclass of int
IsNumeric(value) == value[1] \in {"int", "float", "bool"}

RECURSIVE SumWeighted(_)
SumWeighted(metrics) ==
    IF metrics = {} THEN 0
    ELSE LET m == CHOOSE x \in metrics : TRUE
         IN  (IF IsNumeric(m[2]) THEN m[2][2] * Weight(m[1]) ELSE 0)
             + SumWeighted(metrics \ {m})

\* ContentItem.compute_score, in hundredths
ComputeScore(item) == SumWeighted(MetricsOf(item))

\* a sort that puts an item before the items of equal score
InsertByScore_BeforeTies(sorted, item) ==
    LET n == Cardinality({i \in DOMAIN sorted :
                             ComputeScore(sorted[i]) > ComputeScore(item)})
    IN  SubSeq(sorted, 1, n) \o <<item>> \o SubSeq(sorted, n + 1, Len(sorted))

\* list.sort(key=compute_score, reverse=True) is stable: an item goes after
\* the items whose score is at least its own
InsertByScore(sorted, item) ==
    LET n == Cardinality({i \in DOMAIN sorted :
                             ComputeScore(sorted[i]) >= ComputeScore(item)})
    IN  SubSeq(sorted, 1, n) \o <<item>> \o SubSeq(sorted, n + 1, Len(sorted))

RECURSIVE SortByScore(_)
SortByScore(items) ==
    IF items = <<>> THEN <<>>
    ELSE InsertByScore(SortByScore(SubSeq(items, 1, Len(items) - 1)),
                       items[Len(items)])

\* _item_to_dict
ItemToDict(item) ==
    [platform |-> item[1], platform_id |-> item[2],
     metrics |-> MetricsOf(item), score |-> ComputeScore(item)]

\* all_items[:20], the 20 scaled to MaxListed
Listed(items) ==
    SubSeq(items, 1, IF Len(items) < MaxListed THEN Len(items) ELSE MaxListed)

\* fetch_x and fetch_youtube await the adapter inside asyncio.wait_for,
\* fetch_podcasts awaits the adapter itself
HasTimeout(p) == p \in {"x", "youtube"}

\* the current counter a fetch emits when it has finished
FetchCounter(p) == CASE p = "x" -> 1 [] p = "youtube" -> 2 [] OTHER -> 3

\* emit_progress: with a callback, progress_callback(step, current, total,
\* elapsed, media_status) is called
EmitProgress(pp, step, current, total) ==
    IF pp.callback
    THEN [pp EXCEPT !.emitted = Some([step |-> step, current |-> current,
                                      total |-> total,
                                      media_status |->
                                          [q \in Platforms |->
                                              [status |-> pp.status[q],
                                               count |-> pp.count[q]]]]),
                    !.emissions = @ + 1]
    ELSE pp

\* create_briefing up to the gather: media_status, all_items, stats
StartBriefing(srcs, callback) ==
    EmitProgress(
    [stage |-> "fetching",
     sources |-> srcs,
     callback |-> callback,
     pc |-> [p \in Platforms |-> "start"],
     outcome |-> [p \in Platforms |-> "none"],
     status |-> [p \in Platforms |-> "pending"],
     count |-> [p \in Platforms |-> 0],
     result |-> [p \in Platforms |-> <<>>],
     steps |-> {},
     all_items |-> <<>>,
     items_fetched |-> [p \in Platforms |-> 0],
     raised |-> FALSE,
     raised_in |-> "",
     emitted |-> None,
     emissions |-> 0,
     podcast_callbacks |-> 0,
     idx |-> 0,
     attempted |-> <<>>,
     store_outcome |-> "",
     stored_count |-> 0,
     vectorstore_calls |-> 0,
     summarizer_calls |-> 0,
     ret_val |-> None],
    "Fetching media", 0, 3)

\* create_briefing is called
CreateBriefing(srcs, callback) ==
    /\ pipe.stage = "idle"
    /\ pipe' = StartBriefing(srcs, callback)
    /\ UNCHANGED <<backend, rows, now, tasks, ret, nops>>

\* fetch_x / fetch_youtube / fetch_podcasts up to the await: skipped without
\* sources, else fetching
FetchStart(p) ==
    /\ pipe.stage = "fetching"
    /\ pipe.pc[p] = "start"
    /\ pipe' = IF pipe.sources[p] = 0
               THEN EmitProgress([pipe EXCEPT !.status[p] = "skipped",
                                              !.pc[p] = "returned"],
                                 "Fetching media", 0, 3)
               ELSE EmitProgress([pipe EXCEPT !.status[p] = "fetching",
                                              !.pc[p] = "awaiting"],
                                 "Fetching media", 0, 3)
    /\ UNCHANGED <<backend, rows, now, tasks, ret, nops>>

\* fetch_podcasts.podcast_progress_callback, called by the podcast adapter
\* while it works
PodcastProgress ==
    /\ pipe.stage = "fetching"
    /\ pipe.pc["podcasts"] = "awaiting"
    /\ pipe.podcast_callbacks < MaxCallbacks
    /\ pipe' = EmitProgress([pipe EXCEPT !.status["podcasts"] = "fetching",
                                         !.podcast_callbacks = @ + 1],
                            "Fetching media", 0, 3)
    /\ UNCHANGED <<backend, rows, now, tasks, ret, nops>>

\* a fetch that shows done to the callback before it has written the count
AdapterReturns_EmitsBeforeCount(p, items) ==
    /\ pipe.stage = "fetching"
    /\ pipe.pc[p] = "awaiting"
    /\ pipe' = [EmitProgress([pipe EXCEPT !.outcome[p] = "returned",
                                          !.status[p] = "done",
                                          !.result[p] = items,
                                          !.pc[p] = "returned"],
                             "Fetching media", FetchCounter(p), 3)
                   EXCEPT !.count[p] = Len(items)]
    /\ UNCHANGED <<backend, rows, now, tasks, ret, nops>>

\* the adapter returns items
AdapterReturns(p, items) ==
    /\ pipe.stage = "fetching"
    /\ pipe.pc[p] = "awaiting"
    /\ pipe' = EmitProgress([pipe EXCEPT !.outcome[p] = "returned",
                                         !.status[p] = "done",
                                         !.count[p] = Len(items),
                                         !.result[p] = items,
                                         !.pc[p] = "returned"],
                            "Fetching media", FetchCounter(p), 3)
    /\ UNCHANGED <<backend, rows, now, tasks, ret, nops>>

\* an except clause that returns [] and leaves the status as it was
FetchDegraded_KeepsFetching(p, how, st) ==
    EmitProgress([pipe EXCEPT !.outcome[p] = how,
                              !.steps = @ \cup {<<p, st>>},
                              !.result[p] = <<>>,
                              !.pc[p] = "returned"],
                 "Fetching media", FetchCounter(p), 3)

\* an except clause that lets the error out of create_briefing
FetchDegraded_Propagate(p, how, st) ==
    [pipe EXCEPT !.outcome[p] = how, !.stage = "raised", !.raised = TRUE]

\* except asyncio.TimeoutError / except Exception of a fetch: the status of
\* the platform, the emission, a step in the statistics, return []
FetchDegraded(p, how, st) ==
    EmitProgress([pipe EXCEPT !.outcome[p] = how,
                              !.status[p] = st,
                              !.steps = @ \cup {<<p, st>>},
                              !.result[p] = <<>>,
                              !.pc[p] = "returned"],
                 "Fetching media", FetchCounter(p), 3)

\* the adapter raises
AdapterRaises(p) ==
    /\ pipe.stage = "fetching"
    /\ pipe.pc[p] = "awaiting"
    /\ pipe' = FetchDegraded(p, "raised", "failed")
    /\ UNCHANGED <<backend, rows, now, tasks, ret, nops>>

\* asyncio.wait_for gives up on the adapter
FetchTimeout(p) ==
    /\ pipe.stage = "fetching"
    /\ HasTimeout(p)
    /\ pipe.pc[p] = "awaiting"
    /\ pipe' = FetchDegraded(p, "timed_out", "timeout")
    /\ UNCHANGED <<backend, rows, now, tasks, ret, nops>>

\* the result returned when no platform contributed an item
NoContentSummary == "No content found from your sources in the specified time range."

NoContentResult == [summary |-> NoContentSummary, items |-> <<>>, recommendations |-> <<>>]

\* a join that goes on to the archive loop whatever was fetched
AfterJoin_AlwaysArchive(pp) ==
    [EmitProgress(pp, "Archiving to vector store", 0, Len(pp.all_items))
        EXCEPT !.stage = "archiving"]

\* a join that goes on to the summarizer without the archive loop
AfterJoin_SkipsArchive(pp) ==
    IF pp.all_items = <<>>
    THEN [pp EXCEPT !.stage = "returned", !.ret_val = Some(NoContentResult)]
    ELSE [EmitProgress([pp EXCEPT !.all_items = SortByScore(pp.all_items)],
                       "Generating AI summary", 0, 1)
             EXCEPT !.stage = "summarizing", !.summarizer_calls = @ + 1]

\* create_briefing after the results are joined: the no-content return, or
\* the start of the archive loop up to the first store_content
AfterJoin(pp) ==
    IF pp.all_items = <<>>
    THEN [pp EXCEPT !.stage = "returned", !.ret_val = Some(NoContentResult)]
    ELSE [EmitProgress(pp, "Archiving to vector store", 0, Len(pp.all_items))
             EXCEPT !.stage = "archiving"]

\* asyncio.gather returns when the three fetches have returned; the results
\* that are not empty go to all_items and to the statistics, the totals are
\* emitted, and create_briefing goes on to its next await or return
Gather ==
    /\ pipe.stage = "fetching"
    /\ \A p \in Platforms : pipe.pc[p] = "returned"
    /\ pipe' = AfterJoin(EmitProgress(
                 [pipe EXCEPT
                     !.all_items = pipe.result["x"] \o pipe.result["youtube"]
                                       \o pipe.result["podcasts"],
                     !.items_fetched = [p \in Platforms |-> Len(pipe.result[p])],
                     !.steps = @ \cup {<<p, "completed">> :
                                          p \in {q \in Platforms : pipe.result[q] # <<>>}}],
                 "Fetched", 3, 3))
    /\ UNCHANGED <<backend, rows, now, tasks, ret, nops>>

\* the sort by score and the call of summarize_content, up to its await
StartSummary(pp) ==
    [EmitProgress([pp EXCEPT !.all_items = SortByScore(pp.all_items)],
                  "Generating AI summary", 0, 1)
        EXCEPT !.stage = "summarizing", !.summarizer_calls = @ + 1]

\* what may be found in the transcript store after the archive loop
PendingOutcomes == {"none_pending", "pending", "raises"}

\* create_briefing after the archive loop: the archive step of the
\* statistics, the pending transcripts (list_pending is outside any try),
\* up to the await of process_pending or of summarize_content
AfterArchive(pp, pending) ==
    LET archived == [pp EXCEPT !.steps = @ \cup {<<"archive_vectorstore", "completed">>}]
    IN  CASE pending = "raises" ->
                 [archived EXCEPT !.stage = "raised", !.raised = TRUE,
                                  !.raised_in = "list_pending"]
          [] pending = "pending" ->
                 [EmitProgress(archived, "Summarizing transcripts", 0, 1)
                     EXCEPT !.stage = "transcripts"]
          [] OTHER -> StartSummary(archived)

\* an archive loop that gives up at the first attempt that raises
StoreContent_StopsAtFailure(outcome, pending) ==
    /\ pipe.stage = "archiving"
    /\ pipe.idx < Len(pipe.all_items)
    /\ LET called == [pipe EXCEPT !.vectorstore_calls = @ + 1,
                                  !.idx = @ + 1,
                                  !.attempted = Append(@, pipe.all_items[pipe.idx + 1]),
                                  !.store_outcome = outcome,
                                  !.stored_count =
                                      IF outcome = "content_id" THEN @ + 1 ELSE @]
       IN  pipe' = IF outcome = "raises" \/ called.idx = Len(pipe.all_items)
                   THEN AfterArchive(called, pending)
                   ELSE called
    /\ UNCHANGED <<backend, rows, now, tasks, ret, nops>>

\* one round of the archive loop: store_content for the next item returns a
\* content id, returns none, or raises (caught, logged); after the last
\* item create_briefing goes on
StoreOutcomes == {"content_id", "no_id", "raises"}

StoreContent(outcome, pending) ==
    /\ pipe.stage = "archiving"
    /\ pipe.idx < Len(pipe.all_items)
    /\ LET called == [pipe EXCEPT !.vectorstore_calls = @ + 1,
                                  !.idx = @ + 1,
                                  !.attempted = Append(@, pipe.all_items[pipe.idx + 1]),
                                  !.store_outcome = outcome,
                                  !.stored_count =
                                      IF outcome = "content_id" THEN @ + 1 ELSE @]
           stored == IF outcome = "raises" THEN called
                     ELSE EmitProgress(called, "Archiving to vector store",
                                       pipe.idx + 1, Len(pipe.all_items))
       IN  pipe' = IF stored.idx = Len(pipe.all_items)
                   THEN AfterArchive(stored, pending)
                   ELSE stored
    /\ UNCHANGED <<backend, rows, now, tasks, ret, nops>>

\* processor.process_pending returns, or raises (caught: a failed step)
ProcessPending(fails) ==
    /\ pipe.stage = "transcripts"
    /\ pipe' = StartSummary(
                 IF fails
                 THEN [pipe EXCEPT !.steps = @ \cup {<<"summarize_transcripts", "failed">>}]
                 ELSE EmitProgress(
                        [pipe EXCEPT !.steps = @ \cup {<<"summarize_transcripts", "completed">>}],
                        "Summarized transcripts", 1, 1))
    /\ UNCHANGED <<backend, rows, now, tasks, ret, nops>>

\* summarize_content returns or raises (outside any try), up to the await of
\* generate_recommendations
SummarizeContent(raises) ==
    /\ pipe.stage = "summarizing"
    /\ pipe' = IF raises
               THEN [pipe EXCEPT !.stage = "raised", !.raised = TRUE,
                                 !.raised_in = "summarize_content"]
               ELSE [EmitProgress(
                       EmitProgress(
                         [pipe EXCEPT !.steps = @ \cup {<<"generate_summary", "completed">>}],
                         "Generated AI summary", 1, 1),
                       "Generating recommendations", 0, 1)
                       EXCEPT !.stage = "recommending"]
    /\ UNCHANGED <<backend, rows, now, tasks, ret, nops>>

\* generate_recommendations returns or raises (outside any try); the result
\* of create_briefing
GenerateRecommendations(raises) ==
    /\ pipe.stage = "recommending"
    /\ pipe' = IF raises
               THEN [pipe EXCEPT !.stage = "raised", !.raised = TRUE,
                                 !.raised_in = "generate_recommendations"]
               ELSE [EmitProgress(
                       [pipe EXCEPT !.steps = @ \cup {<<"generate_recommendations", "completed">>}],
                       "Completed", 1, 1)
                       EXCEPT !.stage = "returned",
                              !.ret_val =
                                  Some([summary |-> "summary",
                                        items |-> [i \in DOMAIN Listed(pipe.all_items) |->
                                                      ItemToDict(Listed(pipe.all_items)[i])],
                                        recommendations |-> <<"recommendation">>])]
    /\ UNCHANGED <<backend, rows, now, tasks, ret, nops>>

NextPipeline ==
    \/ \E srcs \in [Platforms -> 0..MaxSources], cb \in BOOLEAN : CreateBriefing(srcs, cb)
    \/ \E p \in Platforms : FetchStart(p)
    \/ PodcastProgress
    \/ \E p \in Platforms : \E items \in ListsOver(ItemsOf(p)) : AdapterReturns(p, items)
    \/ \E p \in Platforms : AdapterRaises(p)
    \/ \E p \in Platforms : FetchTimeout(p)
    \/ Gather
    \/ \E o \in StoreOutcomes, pending \in PendingOutcomes : StoreContent(o, pending)
    \/ \E fails \in BOOLEAN : ProcessPending(fails)
    \/ \E raises \in BOOLEAN : SummarizeContent(raises)
    \/ \E raises \in BOOLEAN : GenerateRecommendations(raises)

SpecPipeline == Init /\ [][NextPipeline]_vars

\* The event loop runs every coroutine that is ready, and the timer of
\* asyncio.wait_for fires; an adapter need not ever return or raise.
FairSpecPipeline ==
    /\ SpecPipeline
    /\ WF_vars(\E p \in Platforms : FetchStart(p))
    /\ WF_vars(\E p \in Platforms : FetchTimeout(p))
    /\ WF_vars(Gather)

---------------------------------------------------------------------------
(* generate_briefing.run_briefing: the background task of a briefing job
   around create_briefing *)

\* the labels of the progress steps, as they are stored
StepCode(step) ==
    CASE step = "Starting..." -> 0
      [] step = "Fetching media" -> 1
      [] step = "Fetched" -> 2
      [] step = "Archiving to vector store" -> 3
      [] step = "Summarizing transcripts" -> 4
      [] step = "Summarized transcripts" -> 5
      [] step = "Generating AI summary" -> 6
      [] step = "Generated AI summary" -> 7
      [] step = "Generating recommendations" -> 8
      [] OTHER -> 9

\* generate_briefing.progress_callback: the progress it would hand to
\* update_progress
ProgressDict(e) ==
    {<<"step", StepCode(e.step)>>, <<"current", e.current>>, <<"total", e.total>>}

\* run_briefing calls create_briefing with progress_callback.  The callback
\* is an async function and emit_progress calls it without await: each call
\* makes a coroutine object that nothing runs, so the steps of the pipeline
\* send no statement to the store.
RunBriefing(id, srcs) ==
    /\ tasks[id] = "task"
    /\ \E p \in Platforms : srcs[p] > 0
    /\ pipe.stage = "idle"
    /\ pipe' = StartBriefing(srcs, TRUE)
    /\ tasks' = [tasks EXCEPT ![id] = "pipeline"]
    /\ UNCHANGED <<backend, rows, now, ret, nops>>

\* create_briefing has returned: _save_briefing, then complete; an error of
\* the save is caught by except Exception and the job is failed
RunBriefingReturns(id, saved) ==
    /\ tasks[id] = "pipeline"
    /\ pipe.stage = "returned"
    /\ rows' = IF saved
               THEN CompleteStmt(rows, id, ResultOutput, StoreTs(backend, now))
               ELSE FailStmt(rows, id, TracebackText, StoreTs(backend, now))
    /\ tasks' = [tasks EXCEPT ![id] = "done"]
    /\ pipe' = NoPipe
    /\ UNCHANGED <<backend, now, ret, nops>>

\* create_briefing has raised: except Exception fails the job
RunBriefingRaises(id) ==
    /\ tasks[id] = "pipeline"
    /\ pipe.stage = "raised"
    /\ rows' = FailStmt(rows, id, TracebackText, StoreTs(backend, now))
    /\ tasks' = [tasks EXCEPT ![id] = "done"]
    /\ pipe' = NoPipe
    /\ UNCHANGED <<backend, now, ret, nops>>

\* the lists an adapter returns in a run followed together with its job:
\* nothing or one item
ShortLists(p) == {<<>>, <<<<p, 1>>>>}

NextBriefingRun ==
    \/ GenerateBriefing(TRUE)
    \/ \E id \in StoredIds : InitialProgress(id)
    \/ \E id \in StoredIds, srcs \in [Platforms -> 0..MaxSources] : RunBriefing(id, srcs)
    \/ \E p \in Platforms : FetchStart(p)
    \/ PodcastProgress
    \/ \E p \in Platforms : \E items \in ShortLists(p) : AdapterReturns(p, items)
    \/ \E p \in Platforms : AdapterRaises(p)
    \/ \E p \in Platforms : FetchTimeout(p)
    \/ Gather
    \/ \E o \in StoreOutcomes, pending \in PendingOutcomes : StoreContent(o, pending)
    \/ \E fails \in BOOLEAN : ProcessPending(fails)
    \/ \E raises \in BOOLEAN : SummarizeContent(raises)
    \/ \E raises \in BOOLEAN : GenerateRecommendations(raises)
    \/ \E id \in StoredIds, saved \in BOOLEAN : RunBriefingReturns(id, saved)
    \/ \E id \in StoredIds : RunBriefingRaises(id)

SpecBriefingRun == Init /\ [][NextBriefingRun]_vars

---------------------------------------------------------------------------
(* init() and process restarts *)

\* a startup that drops and recreates the table
InitSchemaStmt_Recreate(rws) == <<>>

\* a startup that fails the jobs a crash left active
InitSchemaStmt_FailOrphans(rws) ==
    [j \in DOMAIN rws |->
        IF IsActiveRow(rws[j]) THEN [rws[j] EXCEPT !.status = FAILED] ELSE rws[j]]

\* init_schema: CREATE TABLE IF NOT EXISTS jobs, CREATE INDEX IF NOT EXISTS
InitSchemaStmt(rws) == rws

\* JobService.init() on the running service
JobServiceInit ==
    /\ nops < MaxRequests
    /\ rows' = InitSchemaStmt(rows)
    /\ ret' = Ret("init", 0, None, None)
    /\ nops' = nops + 1
    /\ UNCHANGED <<pipe, backend, now, tasks>>

\* The process dies and is started again on the same store: the handlers
\* and background tasks that were running are gone, lifespan constructs the
\* JobService (same DATABASE_URL, same backend) and calls init().
Restart ==
    /\ nops < MaxRequests
    /\ tasks' = [j \in JobIds |->
                    IF tasks[j] \in {"none", "done"} THEN tasks[j] ELSE "lost"]
    /\ rows' = InitSchemaStmt(rows)
    /\ ret' = Ret("restart", 0, None, None)
    /\ nops' = nops + 1
    /\ UNCHANGED <<pipe, backend, now>>

NextRestart ==
    \/ NextApp
    \/ JobServiceInit
    \/ Restart

SpecRestart == Init /\ [][NextRestart]_vars

---------------------------------------------------------------------------
(* Properties *)

Terminal == {COMPLETED, FAILED}
NonTerminal == {PENDING, RUNNING}
JobAfter(id) == RowToJob(backend, id, rows'[id])

\* C1: once the status get reads for a job is COMPLETED or FAILED, no
\* operation the application issues changes it.
C1_TerminalStatusNeverChanges ==
    [][\A j \in StoredIds :
          JobOf(j).status \in Terminal => JobAfter(j).status = JobOf(j).status]_vars

\* C2: a job whose status is COMPLETED or FAILED has exactly one of output
\* and error set, a job whose status is PENDING or RUNNING has neither.
C2_OutputXorError ==
    \A j \in StoredIds :
        /\ JobOf(j).status \in Terminal =>
               (JobOf(j).output # None) # (JobOf(j).error # None)
        /\ JobOf(j).status \in NonTerminal =>
               JobOf(j).output = None /\ JobOf(j).error = None

\* C3: completed_at is set if and only if the status is COMPLETED or FAILED.
C3_CompletedAtIffTerminal ==
    \A j \in StoredIds :
        (JobOf(j).completed_at # None) <=> (JobOf(j).status \in Terminal)

\* C4: started_at stays null until an update_progress call on the job
\* executes, that call sets it to the clock value it read, and once set no
\* step changes it, whichever way update_progress calls overlap.
C4_StartedAtSetOnce ==
    [][\A j \in StoredIds :
          /\ JobOf(j).started_at # None => JobAfter(j).started_at = JobOf(j).started_at
          /\ (JobOf(j).started_at = None /\ JobAfter(j).started_at # None) =>
                 /\ ret'.op = "update_progress" /\ ret'.id = j
                 /\ JobAfter(j).started_at = Some(ret'.ts)
          /\ (ret'.op = "update_progress" /\ ret'.id = j) =>
                 JobAfter(j).started_at # None]_vars

\* C4 witness: an update_progress call that read the clock before the call
\* that set started_at did, and executed after it.
C4_Witness ==
    /\ ret.op = "update_progress"
    /\ ret.id \in StoredIds
    /\ JobOf(ret.id).started_at # None
    /\ ret.ts < JobOf(ret.id).started_at[1]

\* C5: after update_progress(id, p) on a stored job the status is RUNNING
\* and the stored progress is p, with no other key.
C5_ProgressReplaced ==
    (ret.op = "update_progress" /\ ret.id \in StoredIds) =>
        /\ rows[ret.id].status = RUNNING
        /\ rows[ret.id].progress # None
        /\ JsonLoads(rows[ret.id].progress[1]) = ret.arg[1]

\* C5 witness: a second update_progress on a job, with the payload that has
\* the step key only.
C5_Witness ==
    /\ ret.op = "update_progress"
    /\ ret.id \in StoredIds
    /\ ret.arg = Some({<<"step", 2>>})
    /\ JobOf(ret.id).started_at # Some(ret.ts)
    /\ JsonLoads(rows[ret.id].progress[1]) = {<<"step", 2>>}

\* C6: at most one stored job is PENDING or RUNNING.
C6_AtMostOneActive ==
    Cardinality({j \in StoredIds : JobOf(j).status \in NonTerminal}) <= 1

\* C7: get_active returns not-found exactly when no stored job is PENDING
\* or RUNNING, and a job it returns is PENDING or RUNNING.
C7_GetActiveNotFoundIff ==
    ret.op = "get_active" =>
        /\ (ret.val = None) <=> (\A j \in StoredIds : rows[j].status \notin NonTerminal)
        /\ ret.val # None => ret.val[1].status \in NonTerminal

\* C7 witness: get_active answers not-found on a table that holds a
\* COMPLETED, a FAILED and a CANCELLED job.
C7_Witness ==
    /\ ret.op = "get_active"
    /\ ret.val = None
    /\ {rows[j].status : j \in StoredIds} = {COMPLETED, FAILED, CANCELLED}

\* C8: the job get_active returns was created no earlier than any other
\* PENDING or RUNNING job.
C8_GetActiveMostRecent ==
    (ret.op = "get_active" /\ ret.val # None) =>
        /\ ret.val[1].id \in StoredIds
        /\ ret.val[1] = JobOf(ret.val[1].id)
        /\ \A k \in StoredIds :
               JobOf(k).status \in NonTerminal =>
                   JobOf(k).created_at <= ret.val[1].created_at

\* C8 witness: get_active returns a job while an older job is active too
\* and a COMPLETED job was created between the two.
C8_Witness ==
    /\ ret.op = "get_active"
    /\ ret.val # None
    /\ \E k, c \in StoredIds :
           /\ JobOf(k).status \in NonTerminal
           /\ JobOf(c).status = COMPLETED
           /\ JobOf(k).created_at < JobOf(c).created_at
           /\ JobOf(c).created_at < ret.val[1].created_at

Min(a, b) == IF a <= b THEN a ELSE b

\* C9: list_recent(limit) returns min(limit, number of stored jobs)
\* different stored jobs, newest first, none of them created before a job
\* it leaves out.
C9_ListRecent ==
    ret.op = "list_recent" =>
        LET limit == ret.arg[1]
            jobs == ret.val
            listed == {jobs[i].id : i \in 1..Len(jobs)}
        IN  /\ Len(jobs) = Min(limit, Cardinality(StoredIds))
            /\ Cardinality(listed) = Len(jobs)
            /\ \A i \in 1..Len(jobs) :
                   jobs[i].id \in StoredIds /\ jobs[i] = JobOf(jobs[i].id)
            /\ \A i \in 1..(Len(jobs) - 1) :
                   jobs[i].created_at >= jobs[i + 1].created_at
            /\ \A k \in StoredIds \ listed : \A i \in 1..Len(jobs) :
                   JobOf(k).created_at <= jobs[i].created_at
            /\ limit = 0 => jobs = <<>>

\* C9 witness: list_recent(2) on three jobs created at three different
\* times.
C9_Witness ==
    /\ ret.op = "list_recent"
    /\ ret.arg = Some(2)
    /\ Len(ret.val) = 2
    /\ Cardinality({JobOf(j).created_at : j \in StoredIds}) = 3

\* C10: get with a string that is the id of no stored job returns
\* not-found and does not raise.
C10_GetUnknownIdNotFound ==
    (ret.op = "get" /\ ret.id \notin StoredIds) =>
        ~ret.raised /\ ret.val = None

\* what get returns for a stored job
Got(id) == GetJobResult(id).val[1]

\* C11: after create(params), update_progress(id, p), complete(id, output)
\* and fail(id, msg) on a stored job, get(id) returns input, progress,
\* output and error equal to the value passed: a dict (not its JSON text)
\* with the same keys and values, or the same string.
C11_RoundTrip ==
    (ret.id \in StoredIds /\ ~ret.raised) =>
        /\ ret.op = "create" =>
               ~JsonAsText(backend) /\ Got(ret.id).input = ret.arg
        /\ ret.op = "update_progress" =>
               ~JsonAsText(backend) /\ Got(ret.id).progress = ret.arg
        /\ ret.op = "complete" =>
               ~JsonAsText(backend) /\ Got(ret.id).output = ret.arg
        /\ ret.op = "fail" => Got(ret.id).error = ret.arg

\* C12: insert_job with an id that is stored already raises, and the stored
\* table, the record under that id included, is left as it was.
C12_DuplicateInsertRejected ==
    [][(nops' = nops + 1 /\ ret'.op = "insert_job" /\ ret'.id \in StoredIds) =>
          ret'.raised /\ rows' = rows]_vars

\* C12 witness: an insert_job of a TRANSCRIPTION job under the UUID of a
\* stored BRIEFING job has raised.
C12_Witness ==
    /\ ret.op = "insert_job"
    /\ ret.raised
    /\ IsUuid(ret.id)
    /\ ret.id \in StoredIds
    /\ ret.arg[1].type = TRANSCRIPTION
    /\ rows[ret.id].type = BRIEFING

\* the sources the callers of create name
JobSources == {"local", "api", "n8n"}

\* C13: a create(type, params, source) step returns and stores a record
\* under an id no stored job had, with that type and source, status PENDING,
\* input equal to params and started_at, completed_at, progress, output and
\* error null; every other record stays as it was and no task is started.
C13_CreatePostcondition ==
    [][\A t \in JobType, p \in InputParams, src \in JobSources :
          Create(t, p, src) =>
              LET id == ret'.id
                  job == ret'.val[1]
                  row == rows'[id]
              IN  /\ id \notin StoredIds
                  /\ DOMAIN rows' = StoredIds \cup {id}
                  /\ job = Job(id, t, PENDING, job.created_at, Some(p), src)
                  /\ row.type = t /\ row.source = src /\ row.status = PENDING
                  /\ row.started_at = None /\ row.completed_at = None
                  /\ row.progress = None /\ row.output = None /\ row.error = None
                  /\ row.input # None /\ JsonLoads(row.input[1]) = p
                  /\ \A j \in StoredIds : rows'[j] = rows[j]
                  /\ tasks' = tasks]_vars

\* C14: after any number of overlapping create calls, every call has stored
\* a record under an id of its own, get finds each of them, and for every
\* k up to their number list_recent(k) returns k of them, newest first, none
\* created before one it leaves out.
C14_ConcurrentCreates ==
    LET n == Cardinality(StoredIds)
    IN  /\ n = nops
        /\ \A id \in StoredIds :
               /\ ~GetJobResult(id).raised
               /\ GetJobResult(id).val # None
               /\ Got(id).id = id
        /\ \A k \in 0..n : \A s \in RecentOrderings(k) :
               /\ Len(s) = k
               /\ Cardinality({s[i] : i \in 1..k}) = k
               /\ \A i \in 1..(k - 1) :
                      JobOf(s[i]).created_at >= JobOf(s[i + 1]).created_at
               /\ \A j \in StoredIds \ {s[i] : i \in 1..k} : \A i \in 1..k :
                      JobOf(j).created_at <= JobOf(s[i]).created_at

\* C14 witness: three create calls have returned, the one that inserted
\* first read the clock last, and the three records carry three different
\* creation times.
C14_Witness ==
    /\ ret.op = "create"
    /\ StoredIds = 1..3
    /\ JobOf(1).created_at > JobOf(2).created_at
    /\ JobOf(2).created_at > JobOf(3).created_at

\* the row of a job as create left it: PENDING, nothing else set
Untouched(row) ==
    /\ row.status = PENDING
    /\ row.started_at = None /\ row.completed_at = None
    /\ row.progress = None /\ row.output = None /\ row.error = None

\* C15: a fail(id, msg) step on a job that is as create left it (PENDING,
\* no update_progress so far) makes get return status FAILED, completed_at
\* set to the clock value the call read, error msg, and started_at, progress
\* and output still null.
C15_FailFromPending ==
    [][\A j \in StoredIds :
          (nops' = nops + 1 /\ ret'.op = "fail" /\ ret'.id = j /\ Untouched(rows[j])) =>
              /\ JobAfter(j).status = FAILED
              /\ JobAfter(j).completed_at = Some(ret'.ts)
              /\ JobAfter(j).error = ret'.arg
              /\ JobAfter(j).started_at = None
              /\ JobAfter(j).progress = None
              /\ JobAfter(j).output = None]_vars

\* C15 witness: fail has just run on the second job, which never saw
\* update_progress, complete or an earlier fail.
C15_Witness ==
    /\ ret.op = "fail"
    /\ ret.id = 2
    /\ ret.id \in StoredIds
    /\ JobOf(2).status = FAILED
    /\ JobOf(2).started_at = None
    /\ JobOf(2).progress = None
    /\ JobOf(2).output = None
    /\ JobOf(2).completed_at = Some(ret.ts)

\* the table the current backend holds, as backend b stores it
ReTs(b, x) == StoreTs(b, ParseDt(backend, Some(x))[1])
Transcode(b, rws) ==
    [j \in DOMAIN rws |->
        [rws[j] EXCEPT
            !.created_at = ReTs(b, @),
            !.started_at = IF @ = None THEN None ELSE Some(ReTs(b, @[1])),
            !.completed_at = IF @ = None THEN None ELSE Some(ReTs(b, @[1]))]]

\* a backend call (op, id, argument, clock value) executed by backend b on
\* the table rws: whether it raises, the table it leaves, what it returns
CallRaises(b, rws, call) ==
    \/ CastFails(b, call.id)
    \/ call.op = "insert_job" /\ PrimaryKeyViolated(rws, call.id)
CallRows(b, rws, call) ==
    IF CallRaises(b, rws, call) THEN rws
    ELSE CASE call.op = "insert_job" ->
                  InsertStmt(rws, call.id, InsertRow(b, call.arg[1]))
           [] call.op = "update_progress" ->
                  UpdateProgressStmt(rws, call.id, call.arg[1], StoreTs(b, call.ts))
           [] call.op = "update_status" ->
                  UpdateStatusStmt(rws, call.id, call.arg[1])
           [] call.op = "complete" ->
                  CompleteStmt(rws, call.id, call.arg[1], StoreTs(b, call.ts))
           [] call.op = "fail" ->
                  FailStmt(rws, call.id, call.arg[1], StoreTs(b, call.ts))
           [] OTHER -> rws
CallFinds(b, rws, call) ==
    call.op = "get" /\ ~CallRaises(b, rws, call) /\ call.id \in DOMAIN rws

\* two backends return the same Job: the same fields, the JSON columns in
\* the same form
JsonColumns == {"progress", "input", "output"}
SameJob(b1, rws1, b2, rws2, id) ==
    LET j1 == RowToJob(b1, id, rws1[id])
        j2 == RowToJob(b2, id, rws2[id])
    IN  /\ \A f \in (DOMAIN j1) \ JsonColumns : j1[f] = j2[f]
        /\ \A f \in JsonColumns :
               \/ j1[f] = None /\ j2[f] = None
               \/ JsonAsText(b1) = JsonAsText(b2) /\ j1[f] = j2[f]

\* C16: the two backends are observationally equivalent: whatever call the
\* current backend has just executed, with the clock value it used, the other
\* backend, on the same records, raises if and only if this one did, leaves
\* the same records and returns the same result.
C16_BackendsEquivalent ==
    [][nops' = nops + 1 =>
          \A b \in Backends :
              LET twin == Transcode(b, rows)
              IN  /\ CallRaises(b, twin, ret') = ret'.raised
                  /\ CallRows(b, twin, ret') = Transcode(b, rows')
                  /\ CallFinds(b, twin, ret') = (ret'.val # None)
                  /\ CallFinds(b, twin, ret') =>
                         SameJob(b, twin, backend, rows, ret'.id)]_vars

\* the current backend does what the call semantics above say
CallSemanticsAgree ==
    [][nops' = nops + 1 =>
          /\ CallRaises(backend, rows, ret') = ret'.raised
          /\ CallRows(backend, rows, ret') = rows'
          /\ CallFinds(backend, rows, ret') = (ret'.val # None)]_vars

\* C17: update_progress, update_status, complete and fail with an id that
\* matches no stored job do not raise and leave the table as it was.
C17_UnknownIdUpdateIsNoOp ==
    [][(/\ nops' = nops + 1
        /\ ret'.op \in {"update_progress", "update_status", "complete", "fail"}
        /\ ret'.id \notin StoredIds) =>
          ~ret'.raised /\ rows' = rows]_vars

\* C18: a webhook request with a job_id that matches no stored job is
\* answered not-found and changes no record; with the id of a stored job the
\* progress webhook applies update_progress to that record, the completion
\* webhook fail (when the request carries an error) or complete, and no
\* other record changes.
C18_Webhooks ==
    [][(nops' = nops + 1 /\ ret'.op \in {"n8n_progress", "n8n_complete"}) =>
          LET id == ret'.id
          IN  IF id \notin StoredIds
              THEN ~ret'.raised /\ ret'.val = Some(404) /\ rows' = rows
              ELSE /\ ~ret'.raised /\ ret'.val = Some(200)
                   /\ \A j \in StoredIds \ {id} : rows'[j] = rows[j]
                   /\ DOMAIN rows' = StoredIds
                   /\ LET ts == StoreTs(backend, now)
                      IN  IF ret'.op = "n8n_progress"
                          THEN \E p \in ProgressPayloads :
                                   rows'[id] = UpdateProgressRow(rows[id], p, ts)
                          ELSE \/ \E e \in ErrorTexts \cup {"n8n execution failed"} :
                                      rows'[id] = FailRow(rows[id], e, ts)
                               \/ \E o \in OutputPayloads :
                                      rows'[id] = CompleteRow(rows[id], o, ts)]_vars

Degraded == {"timeout", "failed"}

\* the three fetches have been joined
Joined == pipe.stage \notin {"idle", "fetching"}

\* an exception got out of create_briefing from one of the fetches
RaisedByFetch == pipe.raised /\ pipe.raised_in = ""

\* what C19 says of a state of the pipeline
C19_State ==
    pipe.stage # "idle" =>
        /\ ~RaisedByFetch
        /\ \A p \in Platforms :
               /\ pipe.outcome[p] = "raised" <=> pipe.status[p] = "failed"
               /\ pipe.outcome[p] = "timed_out" <=> pipe.status[p] = "timeout"
               /\ pipe.status[p] \in Degraded =>
                      pipe.result[p] = <<>> /\ pipe.count[p] = 0
               /\ (pipe.sources[p] = 0 /\ pipe.pc[p] = "returned") =>
                      pipe.status[p] = "skipped"
        /\ Joined =>
               \A p \in Platforms :
                   /\ pipe.status[p] = "done" =>
                          ItemSet(pipe.result[p]) \subseteq ItemSet(pipe.all_items)
                   /\ pipe.status[p] # "done" =>
                          ItemSet(pipe.all_items) \cap ItemsOf(p) = {}
                   /\ pipe.items_fetched[p] =
                          Cardinality(ItemSet(pipe.all_items) \cap ItemsOf(p))

\* C19: a timeout or an exception of one platform's adapter sets that
\* platform's status to timeout or failed and changes no other platform's
\* status or result; the platform contributes no item, create_briefing does
\* not raise, after the join all_items holds every item the other platforms
\* returned, and a platform without sources ends skipped.
C19_FetchFailureIsolated ==
    [][/\ C19_State'
       /\ pipe.stage = "fetching" =>
              \A p \in Platforms :
                  (pipe'.status[p] \in Degraded /\ pipe.status[p] \notin Degraded) =>
                      \A q \in Platforms \ {p} :
                          /\ pipe'.status[q] = pipe.status[q]
                          /\ pipe'.result[q] = pipe.result[q]]_vars

\* C19 witness: the join is passed with x done with two items, youtube
\* timed out and podcasts failed.
C19_Witness ==
    /\ Joined
    /\ pipe.status = [p \in Platforms |->
                         CASE p = "x" -> "done" [] p = "youtube" -> "timeout"
                           [] OTHER -> "failed"]
    /\ ItemSet(pipe.all_items) = ItemsOf("x")

\* C20: once the fan-out has started the join is reached, whatever adapter
\* never returns.
C20_JoinReached == (pipe.stage = "fetching") ~> Joined

\* C28: whichever way update_progress calls on a job overlap, each of them
\* leaves the job RUNNING with the stored progress equal to its own payload,
\* and the stored progress is at every moment one of the submitted payloads
\* in full, never a mix of the keys of two.
C28_ConcurrentProgress ==
    [][\A j \in StoredIds :
          /\ rows'[j].progress # None =>
                 JsonLoads(rows'[j].progress[1]) \in ProgressPayloads
          /\ (nops' = nops + 1 /\ ret'.op = "update_progress" /\ ret'.id = j) =>
                 /\ rows'[j].status = RUNNING
                 /\ JsonLoads(rows'[j].progress[1]) = ret'.arg[1]]_vars

\* C28 witness: an update_progress call that was entered before the job's
\* first one executed has been applied last, over a different payload's
\* keys.
C28_Witness ==
    /\ ret.op = "update_progress"
    /\ ret.id \in StoredIds
    /\ ret.ts < JobOf(ret.id).started_at[1]
    /\ ret.arg = Some({<<"step", 2>>})
    /\ JsonLoads(rows[ret.id].progress[1]) = {<<"step", 2>>}
    /\ rows[ret.id].status = RUNNING

\* C29: an update_status(id, s) step sets the status of the record to s and
\* changes no other field of it and no other record.
C29_UpdateStatusFrame ==
    [][\A j \in StoredIds :
          (nops' = nops + 1 /\ ret'.op = "update_status" /\ ret'.id = j) =>
              /\ rows' = [rows EXCEPT ![j].status = ret'.arg[1]]
              /\ \A f \in (DOMAIN JobOf(j)) \ {"status"} :
                     JobAfter(j)[f] = JobOf(j)[f]]_vars

\* C29 witness: update_status has set COMPLETED on a job that has progress
\* and started_at and still no completed_at and no output.
C29_Witness ==
    /\ ret.op = "update_status"
    /\ ret.id \in StoredIds
    /\ rows[ret.id].status = COMPLETED
    /\ rows[ret.id].progress # None
    /\ rows[ret.id].started_at # None
    /\ rows[ret.id].completed_at = None
    /\ rows[ret.id].output = None

\* C30: a complete step sets status, completed_at and output of the record
\* and nothing else; a fail step sets status, completed_at and error and
\* nothing else.
C30_CompleteFailFrame ==
    [][\A j \in StoredIds :
          /\ (nops' = nops + 1 /\ ret'.op = "complete" /\ ret'.id = j) =>
                 /\ rows'[j] = [rows[j] EXCEPT
                                   !.status = COMPLETED,
                                   !.completed_at = Some(StoreTs(backend, ret'.ts)),
                                   !.output = Some(JsonDumps(ret'.arg[1]))]
                 /\ \A k \in StoredIds \ {j} : rows'[k] = rows[k]
          /\ (nops' = nops + 1 /\ ret'.op = "fail" /\ ret'.id = j) =>
                 /\ rows'[j] = [rows[j] EXCEPT
                                   !.status = FAILED,
                                   !.completed_at = Some(StoreTs(backend, ret'.ts)),
                                   !.error = ret'.arg]
                 /\ \A k \in StoredIds \ {j} : rows'[k] = rows[k]]_vars

\* C30 witness: complete has run on a job that had failed after a progress
\* update: error, progress and started_at are still set.
C30_Witness ==
    /\ ret.op = "complete"
    /\ ret.id \in StoredIds
    /\ rows[ret.id].status = COMPLETED
    /\ rows[ret.id].error # None
    /\ rows[ret.id].progress # None
    /\ rows[ret.id].started_at # None
    /\ rows[ret.id].output # None

C26_InitIdempotent ==
    [][(nops' = nops + 1 /\ ret'.op = "init") =>
          ~ret'.raised /\ rows' = rows /\ tasks' = tasks]_vars

\* C26 witness: init() has been called on a store that holds a COMPLETED
\* and an active job.
C26_Witness ==
    /\ ret.op = "init"
    /\ \E j, k \in StoredIds :
           rows[j].status = COMPLETED /\ rows[k].status \in NonTerminal

\* C24: the local run of a job made by create_job without delegation ends
\* with the job COMPLETED, output set and error null, having been RUNNING.
C24_LocalRunCompletes ==
    [][\A j \in StoredIds :
          (tasks[j] = "run_local_job" /\ tasks'[j] = "done") =>
              /\ rows'[j].status = COMPLETED
              /\ rows'[j].output # None
              /\ rows'[j].error = None]_vars

\* the step in which the pipeline of the running briefing job emits progress
Emits ==
    /\ pipe'.stage # "idle"
    /\ pipe'.emissions > (IF pipe.stage = "idle" THEN 0 ELSE pipe.emissions)

\* C23: in a briefing run started by generate_briefing, right after every
\* progress emission of the pipeline the stored progress of the job has the
\* step, current and total of that emission.
C23_EmissionStored ==
    [][\A id \in StoredIds :
          (tasks'[id] = "pipeline" /\ Emits) =>
              /\ rows'[id].progress # None
              /\ ProgressDict(pipe'.emitted[1]) \subseteq JsonLoads(rows'[id].progress[1])]_vars

\* the lists the adapters returned, in the order of the fetch: x, youtube,
\* podcasts
Fetched == pipe.result["x"] \o pipe.result["youtube"] \o pipe.result["podcasts"]

\* the place of an item in the order of the fetch
FetchPos(platform, platform_id) ==
    CHOOSE i \in DOMAIN Fetched : Fetched[i] = <<platform, platform_id>>

\* d comes before e in the ranking: a higher score, or the same score
\* and fetched earlier
RanksBefore(d, e) ==
    \/ d.score > e.score
    \/ /\ d.score = e.score
       /\ FetchPos(d.platform, d.platform_id) < FetchPos(e.platform, e.platform_id)

\* C21: when every platform contributes no item, create_briefing returns
\* at the join, without raising, the result with the no-content summary and
\* no items and no recommendations, and has called neither the vector store
\* nor the summarizer.
C21_NoContent ==
    (Joined /\ \A p \in Platforms : pipe.result[p] = <<>>) =>
        /\ pipe.stage = "returned"
        /\ ~pipe.raised
        /\ pipe.ret_val = Some([summary |-> NoContentSummary, items |-> <<>>,
                                recommendations |-> <<>>])
        /\ pipe.vectorstore_calls = 0
        /\ pipe.summarizer_calls = 0

\* C21 witness: the join is passed with x skipped, youtube timed out and
\* the podcast adapter having returned an empty list.
C21_Witness ==
    /\ Joined
    /\ pipe.status = [p \in Platforms |->
                         CASE p = "x" -> "skipped" [] p = "youtube" -> "timeout"
                           [] OTHER -> "done"]
    /\ pipe.all_items = <<>>
    /\ pipe.stage = "returned"

\* C27: the items of the result are min(20, fetched) of the fetched items,
\* each with its score; a listed item has a higher score than the one
\* listed after it, or the same score and an earlier place in the fetch;
\* and every fetched item left out ranks after every listed one.
C27_TopByScore ==
    (pipe.stage = "returned" /\ pipe.ret_val # None) =>
        LET got == pipe.ret_val[1].items
            key(d) == <<d.platform, d.platform_id>>
        IN  /\ Len(got) = Min(MaxListed, Len(Fetched))
            /\ \A k \in DOMAIN got :
                   /\ key(got[k]) \in ItemSet(Fetched)
                   /\ got[k].score = ComputeScore(key(got[k]))
            /\ \A k, l \in DOMAIN got : k < l => RanksBefore(got[k], got[l])
            /\ \A f \in ItemSet(Fetched) \ {key(got[k]) : k \in DOMAIN got} :
                   \A k \in DOMAIN got : RanksBefore(got[k], ItemToDict(f))

\* C27 witness: create_briefing has returned a list cut off at the limit;
\* the first listed item was not fetched first, and the second has the same
\* score as the first and comes from a later platform.
C27_Witness ==
    /\ pipe.stage = "returned"
    /\ pipe.ret_val # None
    /\ Len(Fetched) > MaxListed
    /\ Len(pipe.ret_val[1].items) = MaxListed
    /\ <<pipe.ret_val[1].items[1].platform, pipe.ret_val[1].items[1].platform_id>> = <<"x", 2>>
    /\ Fetched[1] = <<"x", 1>>
    /\ pipe.ret_val[1].items[2].platform = "youtube"
    /\ pipe.ret_val[1].items[2].score = pipe.ret_val[1].items[1].score

\* C22: a briefing job whose background task is at work is terminal when
\* the task has ended, and the task ends with the job COMPLETED with output
\* (the pipeline returned, the briefing was saved) or FAILED with the
\* traceback as error (something in the task raised): the task leaves the
\* job neither RUNNING nor PENDING.
C22_BriefingJobEnds ==
    /\ \A id \in JobIds :
           (tasks[id] = "task" /\ rows[id].type = BRIEFING)
               ~> (tasks[id] = "done" /\ rows[id].status \in Terminal)
    /\ [][\A id \in StoredIds :
             (tasks[id] = "task" /\ tasks'[id] = "done" /\ rows[id].type = BRIEFING) =>
                 \/ /\ rows'[id].status = COMPLETED
                    /\ rows'[id].output # None
                 \/ /\ rows'[id].status = FAILED
                    /\ rows'[id].error = Some(TracebackText)]_vars

\* C22 witness: the background task of a briefing job made by
\* generate_briefing has ended on an exception and the job is FAILED with
\* the traceback.
C22_Witness ==
    \E id \in StoredIds :
        /\ tasks[id] = "done"
        /\ rows[id].type = BRIEFING
        /\ rows[id].source = "api"
        /\ rows[id].status = FAILED
        /\ rows[id].error = Some(TracebackText)
        /\ rows[id].started_at # None

\* C31: no step removes a record, and no step changes the type, created_at,
\* input or source of a record stored under an id, nor what get returns for
\* them.
C31_ImmutableFields ==
    [][\A j \in StoredIds :
          /\ j \in DOMAIN rows'
          /\ rows'[j].type = rows[j].type
          /\ rows'[j].created_at = rows[j].created_at
          /\ rows'[j].input = rows[j].input
          /\ rows'[j].source = rows[j].source
          /\ JobAfter(j).id = j
          /\ JobAfter(j).created_at = JobOf(j).created_at]_vars

\* C31 witness: update_progress, complete, fail and update_status have all
\* acted on a job created with parameters, and the parameters are stored.
C31_Witness ==
    \E j \in StoredIds :
        /\ rows[j].progress # None
        /\ rows[j].output # None
        /\ rows[j].error # None
        /\ rows[j].status = CANCELLED
        /\ rows[j].input # None
        /\ JsonLoads(rows[j].input[1]) = {<<"hours_back", 24>>}

\* C32: once the completed_at of a job is set, no step changes it.
C32_CompletedAtSetOnce ==
    [][\A j \in StoredIds :
          rows[j].completed_at # None =>
              rows'[j].completed_at = rows[j].completed_at]_vars

\* C33: a job that is RUNNING has started_at set, started_at is still set
\* when a RUNNING job becomes COMPLETED or FAILED, and a started_at that is
\* set stays set.
C33_StartedAtWhenRunning ==
    [][\A j \in DOMAIN rows' :
          /\ rows'[j].status = RUNNING => rows'[j].started_at # None
          /\ (j \in StoredIds /\ rows[j].started_at # None) =>
                 rows'[j].started_at # None]_vars

\* C40: the timestamps get reads for a job are ordered: created_at is at
\* most started_at when that is set, and started_at is at most completed_at
\* when both are set.
C40_TimestampsOrdered ==
    \A j \in StoredIds :
        LET job == JobOf(j)
        IN  /\ job.started_at # None => job.created_at <= job.started_at[1]
            /\ (job.started_at # None /\ job.completed_at # None) =>
                   job.started_at[1] <= job.completed_at[1]

MediaStatuses == {"pending", "skipped", "fetching", "done", "timeout", "failed"}

\* the moves of a platform's status
StatusMoves ==
    {<<"pending", "skipped">>, <<"pending", "fetching">>}
        \cup {<<"fetching", st>> : st \in {"done", "timeout", "failed"}}

\* C34: in create_briefing the status of every platform is one of the six,
\* starts pending, changes only by pending -> skipped, pending -> fetching
\* or fetching -> done, timeout, failed, and from the join on is one of
\* skipped, done, timeout, failed.
C34_StatusMoves ==
    [][pipe'.stage # "idle" =>
          \A p \in Platforms :
              /\ pipe'.status[p] \in MediaStatuses
              /\ IF pipe.stage = "idle"
                 THEN pipe'.status[p] = "pending"
                 ELSE \/ pipe'.status[p] = pipe.status[p]
                      \/ <<pipe.status[p], pipe'.status[p]>> \in StatusMoves
              /\ Joined' => pipe'.status[p] \in {"skipped", "done", "timeout", "failed"}]_vars

\* C34 witness: the join is passed with x timed out, youtube failed and
\* podcasts done after its adapter reported progress.
C34_Witness ==
    /\ Joined
    /\ pipe.status = [p \in Platforms |->
                         CASE p = "x" -> "timeout" [] p = "youtube" -> "failed"
                           [] OTHER -> "done"]
    /\ pipe.podcast_callbacks > 0
    /\ pipe.result["podcasts"] # <<>>

\* the status map an emission hands to the callback is consistent
ConsistentSnapshot ==
    (pipe.stage # "idle" /\ pipe.emitted # None) =>
        \A p \in Platforms :
            LET shown == pipe.emitted[1].media_status[p]
            IN  IF shown.status = "done"
                THEN shown.count = Len(pipe.result[p])
                ELSE shown.status \in MediaStatuses /\ shown.count = 0

\* C35: whichever way the three fetches interleave, a step writes the
\* status map entry of the one platform whose fetch takes the step, and the
\* status map of every emission shows a done platform with the number of
\* items its fetch returned and every other platform with count 0.
C35_SnapshotConsistent ==
    [][/\ ConsistentSnapshot'
       /\ (pipe.stage = "fetching" /\ pipe'.stage = "fetching") =>
              \A p \in Platforms :
                  (pipe'.status[p] # pipe.status[p] \/ pipe'.count[p] # pipe.count[p]) =>
                      /\ pipe'.pc[p] # pipe.pc[p]
                      /\ \A q \in Platforms \ {p} :
                             /\ pipe'.pc[q] = pipe.pc[q]
                             /\ pipe'.status[q] = pipe.status[q]
                             /\ pipe'.count[q] = pipe.count[q]]_vars

\* C35 witness: the callback has been handed a status map with x done
\* with two items while youtube is fetching and podcasts has failed.
C35_Witness ==
    /\ pipe.stage = "fetching"
    /\ pipe.emitted # None
    /\ pipe.emitted[1].media_status["x"] = [status |-> "done", count |-> 2]
    /\ pipe.emitted[1].media_status["youtube"].status = "fetching"
    /\ pipe.emitted[1].media_status["podcasts"] = [status |-> "failed", count |-> 0]
    /\ pipe.emitted[1].current = 1

\* C36: a store_content call is made only after the three fetches have
\* returned; summarize_content is called only when the archive loop has
\* gone through every item; generate_recommendations is called only by the
\* step in which summarize_content returns; and a run that returns a
\* summary of fetched items to a caller with a callback has emitted
\* 'Completed' last.
C36_StagesOrdered ==
    [][pipe'.stage # "idle" =>
          /\ pipe'.vectorstore_calls > 0 =>
                 \A p \in Platforms : pipe'.pc[p] = "returned"
          /\ pipe'.summarizer_calls > 0 =>
                 /\ pipe'.idx = Len(pipe'.all_items)
                 /\ pipe'.vectorstore_calls = Len(pipe'.all_items)
                 /\ pipe'.stage \notin {"fetching", "archiving"}
          /\ (pipe'.stage = "recommending" /\ pipe.stage # "recommending") =>
                 /\ pipe.stage = "summarizing"
                 /\ pipe'.summarizer_calls = 1
                 /\ <<"generate_summary", "completed">> \in pipe'.steps
          /\ (pipe'.stage = "returned" /\ pipe'.all_items # <<>>) =>
                 /\ pipe.stage = "recommending"
                 /\ pipe'.callback => pipe'.emitted[1].step = "Completed"]_vars

\* C36 witness: a run with a callback has gone through the archive loop
\* for three items, the summarizer and the recommendations, and has
\* returned.
C36_Witness ==
    /\ pipe.stage = "returned"
    /\ pipe.callback
    /\ Len(pipe.all_items) = 3
    /\ pipe.vectorstore_calls = 3
    /\ pipe.summarizer_calls = 1
    /\ pipe.emitted[1].step = "Completed"
    /\ pipe.ret_val[1].summary = "summary"

\* C37: the archive loop attempts the fetched items one by one in the
\* order of the fetch, each once, whatever the earlier attempts did; no
\* attempt raises out of create_briefing; the stored count goes up by one
\* exactly with an attempt that returned a content id; and when the loop
\* is over every fetched item has been attempted.
C37_ArchiveLoop ==
    [][pipe'.stage # "idle" =>
          /\ pipe'.vectorstore_calls = Len(pipe'.attempted)
          /\ pipe'.stored_count <= Len(pipe'.attempted)
          /\ pipe'.stage \in {"fetching", "archiving"} =>
                 pipe'.attempted = SubSeq(pipe'.all_items, 1, Len(pipe'.attempted))
          /\ (pipe'.stage \notin {"fetching", "archiving"} /\ ~RaisedByFetch') =>
                 pipe'.attempted = Fetched'
          /\ (pipe.stage = "archiving" /\ Len(pipe'.attempted) > Len(pipe.attempted)) =>
                 /\ Len(pipe'.attempted) = Len(pipe.attempted) + 1
                 /\ pipe'.stored_count = pipe.stored_count +
                        (IF pipe'.store_outcome = "content_id" THEN 1 ELSE 0)
                 /\ pipe'.raised => pipe'.raised_in = "list_pending"]_vars

\* C37 witness: the loop is over three items: two attempts stored nothing
\* (raised, or returned no id) and the last returned a content id.
C37_Witness ==
    /\ pipe.stage = "summarizing"
    /\ Len(pipe.attempted) = 3
    /\ pipe.stored_count = 1
    /\ pipe.store_outcome = "content_id"
    /\ pipe.vectorstore_calls = 3

\* the fetch step entries of a platform in the statistics
FetchSteps(p) == {st \in pipe.steps : st[1] = p}

\* C38: when create_briefing has returned, the statistics hold exactly one
\* fetch step (completed, timeout or failed) for every platform that had a
\* source, and none for a platform that had none.
C38_FetchStepPerPlatform ==
    pipe.stage = "returned" =>
        \A p \in Platforms :
            IF pipe.sources[p] > 0
            THEN /\ Cardinality(FetchSteps(p)) = 1
                 /\ \A st \in FetchSteps(p) : st[2] \in {"completed", "timeout", "failed"}
            ELSE FetchSteps(p) = {}

\* the fetches that have finished (a platform without sources is skipped,
\* not fetched)
Finished == {p \in Platforms : pipe.status[p] \in {"done", "timeout", "failed"}}

\* C39: in the fetch stage the current counter of an emission is at least
\* the counter of the emission before it and is the number of fetches that
\* have finished.
C39_CounterMonotone ==
    [][(pipe.stage = "fetching" /\ pipe'.stage = "fetching"
           /\ pipe'.emissions > pipe.emissions) =>
          /\ pipe.emitted # None =>
                 pipe'.emitted[1].current >= pipe.emitted[1].current
          /\ pipe'.emitted[1].current = Cardinality(Finished')]_vars

====
